---- MODULE Spec2Model ----
(***************************************************************************)
(* json2yaml (src/json2yaml.py): the conversion policy of the command line *)
(* tool as a state machine.  One invocation is main -> App.run ->          *)
(* run_sources / run_streams; the filesystem, the standard streams and the *)
(* logging calls are the observable state.  File names are sequences of    *)
(* characters so that Path.suffix, Path.with_suffix and the '*.json' glob  *)
(* are computed on the name, as pathlib does (POSIX flavour).              *)
(***************************************************************************)
EXTENDS Integers, Sequences, FiniteSets, TLC

\* ------------------------------------------------------------------ bounds
MaxArgs == 2
MaxRuns == 2

\* ------------------------------------------------------------------- names
A_JSON == <<"a", ".", "j", "s", "o", "n">>
A_YAML == <<"a", ".", "y", "a", "m", "l">>
B_TXT  == <<"b", ".", "t", "x", "t">>
B_YAML == <<"b", ".", "y", "a", "m", "l">>
C_UPPER == <<"c", ".", "J", "S", "O", "N">>
C_TXT  == <<"c", ".", "t", "x", "t">>
D_DIR  == <<"d">>
S_JSON == <<"s", ".", "j", "s", "o", "n">>
E_JSON == <<"e", ".", "j", "s", "o", "n">>
SUB    == <<"s", "u", "b">>
F_JSON == <<"f", ".", "j", "s", "o", "n">>
GONE   == <<"g", "o", "n", "e">>
NOTES  == <<"n", "o", "t", "e", "s">>

JsonExt == <<".", "j", "s", "o", "n">>
YamlExt == <<".", "y", "a", "m", "l">>

\* ------------------------------------------------------- document contents
\* A file's content is its syntax and the value tree it denotes.
Json(v) == [syntax |-> "json", tree |-> v]
Yaml(v) == [syntax |-> "yaml", tree |-> v]
Garbage == [syntax |-> "garbage", tree |-> "none"]
Empty   == [syntax |-> "empty", tree |-> "none"]

File(c) == [kind |-> "file", content |-> c]
Dir     == [kind |-> "dir", content |-> Empty]

\* Variant of json_load: a lenient parser that yields an empty tree for
\* content that is not JSON instead of raising.
json_load_lenient(c) ==
    IF c.syntax = "json" THEN [ok |-> TRUE, tree |-> c.tree]
    ELSE [ok |-> TRUE, tree |-> "none"]

\* json.load: the whole document is decoded, or the parser raises.
json_load(c) ==
    IF c.syntax = "json" THEN [ok |-> TRUE, tree |-> c.tree]
    ELSE [ok |-> FALSE, tree |-> "none"]

\* yaml.dump: the YAML document of the value tree.
yaml_dump(v) == Yaml(v)

\* ------------------------------------------------------------------ pathlib
Max(S) == CHOOSE m \in S : \A x \in S : x <= m

\* str.rfind, 1-based; 0 when the character does not occur.
RFind(name, ch) ==
    LET I == {i \in 1..Len(name) : name[i] = ch}
    IN IF I = {} THEN 0 ELSE Max(I)

Name(path) == path[Len(path)]
Parent(path) == SubSeq(path, 1, Len(path) - 1)

Lower(ch) ==
    CASE ch = "J" -> "j" [] ch = "S" -> "s" [] ch = "O" -> "o" [] ch = "N" -> "n"
      [] OTHER -> ch

\* Variant of Suffix: the suffix folded to lower case, as a case-insensitive
\* extension check would see it.
SuffixAnyCase(name) ==
    LET i == RFind(name, ".")
    IN IF 1 < i /\ i < Len(name)
       THEN [k \in 1..(Len(name) - i + 1) |-> Lower(name[i + k - 1])]
       ELSE <<>>

\* Path.suffix of the final component: from the last dot, unless the dot is
\* the first or the last character.
Suffix(name) ==
    LET i == RFind(name, ".")
    IN IF 1 < i /\ i < Len(name) THEN SubSeq(name, i, Len(name)) ELSE <<>>

\* Path.with_suffix: the old suffix is cut off, the new one appended.
with_suffix(path, suffix) ==
    LET name == Name(path)
        old  == Suffix(name)
        stem == SubSeq(name, 1, Len(name) - Len(old))
    IN Append(Parent(path), stem \o suffix)

\* fnmatch of a name against '*.json' (case-sensitive).
MatchJson(name) ==
    /\ Len(name) >= Len(JsonExt)
    /\ SubSeq(name, Len(name) - Len(JsonExt) + 1, Len(name)) = JsonExt

VARIABLES
    sources,      \* App.sources: the path arguments, in order
    force,        \* App.force
    stdin,        \* the content of standard input
    run_no,       \* which invocation of the program this is
    pc,           \* position of the running invocation
    stack,        \* the pending loops: head is the innermost, last is run_sources'
    source,       \* the path run_source / json_to_yaml is working on
    destination,  \* json_to_yaml's destination
    data,         \* the value tree loaded
    exc,          \* the exception raised, "None" when none
    status,       \* the exit status, once pc = "exited"
    fs,           \* the filesystem: existing path -> entry
    open,         \* the file handles that are open
    stdin_read,   \* whether standard input was read
    stdout,       \* the documents written to standard output
    log,          \* the logging calls made
    io            \* the file accesses made, each with the argument causing it

vars == <<sources, force, stdin, run_no, pc, stack, source, destination, data,
          exc, status, fs, open, stdin_read, stdout, log, io>>

\* ------------------------------------------------------------- filesystem
exists(p)  == p \in DOMAIN fs
is_file(p) == exists(p) /\ fs[p].kind = "file"
is_dir(p)  == exists(p) /\ fs[p].kind = "dir"

Put(f, p, e) == [q \in (DOMAIN f) \cup {p} |-> IF q = p THEN e ELSE f[q]]

\* Path.glob('*.json'): the immediate entries of dir whose name matches.
glob(dir) ==
    {p \in DOMAIN fs : /\ Len(p) = Len(dir) + 1
                       /\ Parent(p) = dir
                       /\ MatchJson(Name(p))}

\* The orders in which a directory scan may return a set of entries.
Orders(S) ==
    {s \in [1..Cardinality(S) -> S] : \A i, j \in DOMAIN s : i # j => s[i] # s[j]}

\* ---------------------------------------------------------------- records
Handle(p, mode) == [path |-> p, mode |-> mode]
\* Variant of Close: the handle is left open.
CloseLeak(handles, h) == handles

\* The end of a with block: the handle is released.
Close(handles, h) == handles \ {h}

\* The index in sources of the argument being processed.
ArgIndex == IF stack = <<>> THEN 0 ELSE Len(sources) - Len(stack[Len(stack)])

Msg(level, msg, p) == [run |-> run_no, level |-> level, msg |-> msg, path |-> p]
Ev(op, p) == [run |-> run_no, arg |-> ArgIndex, op |-> op, path |-> p]

\* Variants of Mode: the flag is ignored.
ModeTruncating(f) == "wt"
ModeExclusive(f) == "xt"

\* write_yaml_file_if_not_exists_and_not_forced's choice of open mode.
Mode(f) == IF f THEN "wt" ELSE "xt"

\* Variant of RunMode: a single argument is taken for none.
RunModeOffByOne(n) == IF n > 1 THEN "run_sources" ELSE "run_streams"

\* App.run's choice between file-tree mode and stream mode.
RunMode(n) == IF n > 0 THEN "run_sources" ELSE "run_streams"

\* ------------------------------------------------------------------- Init
ArgChoices == {<<A_JSON>>, <<B_TXT>>, <<C_UPPER>>, <<NOTES>>, <<D_DIR>>, <<GONE>>}

ArgLists == UNION {[1..n -> ArgChoices] : n \in 0..MaxArgs}

\* The tree the program is run in.  a.json is a valid document; d/a.json is
\* valid or malformed; b.txt is not JSON inside; a.yaml is absent or holds
\* another document.
BaseFS(da) ==
    (<<A_JSON>> :> File(Json("V1"))) @@
    (<<B_TXT>> :> File(Garbage)) @@
    (<<C_UPPER>> :> File(Json("V3"))) @@
    (<<NOTES>> :> File(Json("V6"))) @@
    (<<D_DIR>> :> Dir) @@
    (<<D_DIR, A_JSON>> :> File(da)) @@
    (<<D_DIR, C_TXT>> :> File(Garbage)) @@
    (<<D_DIR, S_JSON>> :> Dir) @@
    (<<D_DIR, S_JSON, E_JSON>> :> File(Json("V4"))) @@
    (<<D_DIR, SUB>> :> Dir) @@
    (<<D_DIR, SUB, F_JSON>> :> File(Json("V5")))

InitFS ==
    {BaseFS(da) : da \in {Json("V2"), Garbage}}
    \cup
    {Put(BaseFS(da), <<A_YAML>>, File(Yaml("OLD"))) : da \in {Json("V2"), Garbage}}

Init ==
    /\ sources \in ArgLists
    /\ force \in BOOLEAN
    /\ stdin \in IF sources = <<>> THEN {Json("V0"), Garbage} ELSE {Json("V0")}
    /\ fs \in InitFS
    /\ run_no = 1
    /\ pc = "main"
    /\ stack = <<>>
    /\ source = <<>>
    /\ destination = <<>>
    /\ data = "none"
    /\ exc = "None"
    /\ status = 0
    /\ open = {}
    /\ stdin_read = FALSE
    /\ stdout = <<>>
    /\ log = <<>>
    /\ io = <<>>

\* ---------------------------------------------------------------- actions
\* main: parse the arguments, configure logging, build the App, call run.
main ==
    /\ pc = "main"
    /\ log' = Append(log, Msg("debug", "Args", <<>>))
    /\ pc' = "run"
    /\ UNCHANGED <<sources, force, stdin, run_no, stack, source, destination,
                   data, exc, status, fs, open, stdin_read, stdout, io>>

\* App.run
run ==
    /\ pc = "run"
    /\ pc' = RunMode(Len(sources))
    /\ UNCHANGED <<sources, force, stdin, run_no, stack, source, destination,
                   data, exc, status, fs, open, stdin_read, stdout, log, io>>

\* App.run_sources, up to the start of its loop.
run_sources ==
    /\ pc = "run_sources"
    /\ log' = IF force
              THEN Append(log, Msg("info", "Forcing overwrite of existing files", <<>>))
              ELSE log
    /\ stack' = <<sources>>
    /\ pc' = "loop"
    /\ UNCHANGED <<sources, force, stdin, run_no, source, destination, data,
                   exc, status, fs, open, stdin_read, stdout, io>>

\* One iteration of the innermost loop (run_sources' over the arguments, or
\* run_source's over a directory's entries): call run_source on the next path.
next_source ==
    /\ pc = "loop"
    /\ stack # <<>>
    /\ Head(stack) # <<>>
    /\ source' = Head(Head(stack))
    /\ stack' = <<Tail(Head(stack))>> \o Tail(stack)
    /\ log' = IF Len(stack) = 1
              THEN Append(log, Msg("debug", "Processing", Head(Head(stack))))
              ELSE log
    /\ pc' = "run_source"
    /\ UNCHANGED <<sources, force, stdin, run_no, destination, data, exc,
                   status, fs, open, stdin_read, stdout, io>>

\* run_source's loop over a directory is exhausted: it returns to its caller.
end_directory ==
    /\ pc = "loop"
    /\ Len(stack) > 1
    /\ Head(stack) = <<>>
    /\ stack' = Tail(stack)
    /\ UNCHANGED <<sources, force, stdin, run_no, pc, source, destination,
                   data, exc, status, fs, open, stdin_read, stdout, log, io>>

\* run_sources' loop is exhausted: run_sources, run and main return, and the
\* process ends with status 0.
end_sources ==
    /\ pc = "loop"
    /\ Len(stack) = 1
    /\ Head(stack) = <<>>
    /\ stack' = <<>>
    /\ pc' = "exited"
    /\ status' = 0
    /\ UNCHANGED <<sources, force, stdin, run_no, source, destination, data,
                   exc, fs, open, stdin_read, stdout, log, io>>

\* App.run_source
run_source ==
    /\ pc = "run_source"
    /\ IF is_file(source)
       THEN /\ pc' = "json_to_yaml"
            /\ UNCHANGED <<stack, exc>>
       ELSE IF is_dir(source)
       THEN /\ \E order \in Orders(glob(source)) : stack' = <<order>> \o stack
            /\ pc' = "loop"
            /\ UNCHANGED exc
       ELSE /\ exc' = "AppError"
            /\ pc' = "raised"
            /\ UNCHANGED stack
    /\ UNCHANGED <<sources, force, stdin, run_no, source, destination, data,
                   status, fs, open, stdin_read, stdout, log, io>>

\* App.json_to_yaml, up to the call of load_json_file.
json_to_yaml ==
    /\ pc = "json_to_yaml"
    /\ IF Suffix(Name(source)) # JsonExt
       THEN /\ log' = Append(log, Msg("warning", "does not have a json extension, skipping", source))
            /\ pc' = "loop"
            /\ UNCHANGED destination
       ELSE /\ destination' = with_suffix(source, YamlExt)
            /\ log' = Append(log, Msg("info", "Converting", source))
            /\ pc' = "load_json_file"
    /\ UNCHANGED <<sources, force, stdin, run_no, stack, source, data, exc,
                   status, fs, open, stdin_read, stdout, io>>

\* load_json_file: open the source for binary read.
load_json_file ==
    /\ pc = "load_json_file"
    /\ log' = Append(log, Msg("debug", "Opening for reading", source))
    /\ open' = open \cup {Handle(source, "rb")}
    /\ io' = Append(io, Ev("open_rb", source))
    /\ pc' = "json_load"
    /\ UNCHANGED <<sources, force, stdin, run_no, stack, source, destination,
                   data, exc, status, fs, stdin_read, stdout>>

\* load_json_file: json.load and the end of the with block, which closes the
\* source whether json.load returned or raised; then json_to_yaml's debug line.
load_json_file_load ==
    /\ pc = "json_load"
    /\ open' = Close(open, Handle(source, "rb"))
    /\ io' = Append(io, Ev("load", source))
    /\ LET r == json_load(fs[source].content)
       IN IF r.ok
          THEN /\ data' = r.tree
               /\ log' = Append(log, Msg("debug", "Data", source))
               /\ pc' = "write_yaml_file"
               /\ UNCHANGED exc
          ELSE /\ exc' = "JSONDecodeError"
               /\ pc' = "raised"
               /\ UNCHANGED <<data, log>>
    /\ UNCHANGED <<sources, force, stdin, run_no, stack, source, destination,
                   status, fs, stdin_read, stdout>>

\* write_yaml_file_if_not_exists_and_not_forced and write_yaml_file's open:
\* 'xt' creates the destination or raises FileExistsError, which is caught
\* and logged; 'wt' creates or truncates it.
write_yaml_file ==
    /\ pc = "write_yaml_file"
    /\ LET mode == Mode(force)
           opening == Append(log, Msg("debug", "Opening for writing", destination))
       IN IF mode = "xt" /\ exists(destination)
          THEN /\ log' = Append(opening, Msg("warning", "already exists, skipping", destination))
               /\ io' = Append(io, Ev("exists", destination))
               /\ pc' = "loop"
               /\ UNCHANGED <<fs, open, exc>>
          ELSE IF is_dir(destination)
          THEN /\ log' = opening
               /\ exc' = "IsADirectoryError"
               /\ pc' = "raised"
               /\ UNCHANGED <<fs, open, io>>
          ELSE /\ log' = opening
               /\ fs' = Put(fs, destination, File(Empty))
               /\ open' = open \cup {Handle(destination, mode)}
               /\ io' = Append(io, Ev(mode, destination))
               /\ pc' = "yaml_dump"
               /\ UNCHANGED exc
    /\ UNCHANGED <<sources, force, stdin, run_no, stack, source, destination,
                   data, status, stdin_read, stdout>>

\* write_yaml_file: yaml.dump into the open destination, and the end of the
\* with block.
yaml_dump_file ==
    /\ pc = "yaml_dump"
    /\ fs' = Put(fs, destination, File(yaml_dump(data)))
    /\ open' = Close(open, Handle(destination, Mode(force)))
    /\ io' = Append(io, Ev("dump", destination))
    /\ pc' = "loop"
    /\ UNCHANGED <<sources, force, stdin, run_no, stack, source, destination,
                   data, exc, status, stdin_read, stdout, log>>

\* App.run_streams
run_streams ==
    /\ pc = "run_streams"
    /\ stdin_read' = TRUE
    /\ LET warned == IF force
                     THEN Append(log, Msg("warning", "Forcing has no effect", <<>>))
                     ELSE log
           r == json_load(stdin)
       IN IF r.ok
          THEN /\ data' = r.tree
               /\ log' = Append(warned, Msg("debug", "Data", <<>>))
               /\ stdout' = Append(stdout, yaml_dump(r.tree))
               /\ pc' = "exited"
               /\ status' = 0
               /\ UNCHANGED exc
          ELSE /\ exc' = "JSONDecodeError"
               /\ log' = warned
               /\ pc' = "raised"
               /\ UNCHANGED <<data, stdout, status>>
    /\ UNCHANGED <<sources, force, stdin, run_no, stack, source, destination,
                   fs, open, io>>

\* main's except clause: an AppError is logged; main returns and the process
\* ends with status 0.
main_except ==
    /\ pc = "raised"
    /\ exc = "AppError"
    /\ log' = Append(log, Msg("error", "is not a known type", source))
    /\ stack' = <<>>
    /\ pc' = "exited"
    /\ status' = 0
    /\ UNCHANGED <<sources, force, stdin, run_no, source, destination, data,
                   exc, fs, open, stdin_read, stdout, io>>

\* Any other exception leaves main: the interpreter prints the traceback and
\* the process ends with status 1.
uncaught ==
    /\ pc = "raised"
    /\ exc # "AppError"
    /\ stack' = <<>>
    /\ pc' = "exited"
    /\ status' = 1
    /\ UNCHANGED <<sources, force, stdin, run_no, source, destination, data,
                   exc, fs, open, stdin_read, stdout, log, io>>

\* Another process creates the destination after the conversion has started
\* and before the converter opens it.
other_process_creates ==
    /\ pc \in {"load_json_file", "json_load", "write_yaml_file"}
    /\ ~exists(destination)
    /\ fs' = Put(fs, destination, File(Yaml("FOREIGN")))
    /\ UNCHANGED <<sources, force, stdin, run_no, pc, stack, source,
                   destination, data, exc, status, open, stdin_read, stdout,
                   log, io>>

\* The program is invoked again with the same arguments; the filesystem is
\* as the previous invocation left it.
invoke_again ==
    /\ pc = "exited"
    /\ run_no < MaxRuns
    /\ run_no' = run_no + 1
    /\ pc' = "main"
    /\ source' = <<>>
    /\ destination' = <<>>
    /\ data' = "none"
    /\ exc' = "None"
    /\ status' = 0
    /\ stdin_read' = FALSE
    /\ stdout' = <<>>
    /\ UNCHANGED <<sources, force, stdin, stack, fs, open, log, io>>

Next ==
    \/ main
    \/ run
    \/ run_sources
    \/ next_source
    \/ end_directory
    \/ end_sources
    \/ run_source
    \/ json_to_yaml
    \/ load_json_file
    \/ load_json_file_load
    \/ write_yaml_file
    \/ yaml_dump_file
    \/ run_streams
    \/ main_except
    \/ uncaught
    \/ other_process_creates
    \/ invoke_again

Spec == Init /\ [][Next]_vars

\* ------------------------------------------------------------- properties
\* A name whose extension is exactly '.json', spelled on the characters.
EndsInDotJson(name) ==
    /\ Len(name) > 5
    /\ SubSeq(name, Len(name) - 4, Len(name)) = <<".", "j", "s", "o", "n">>

Logged(lg, r, level, p) ==
    \E i \in DOMAIN lg : lg[i].run = r /\ lg[i].level = level /\ lg[i].path = p

Accesses(tr, r, op, p) ==
    {i \in DOMAIN tr : tr[i].run = r /\ tr[i].op = op /\ tr[i].path = p}

DumpsOf(tr, p) == {i \in DOMAIN tr : tr[i].op = "dump" /\ tr[i].path = p}

IsPrefix(a, b) == Len(a) <= Len(b) /\ SubSeq(b, 1, Len(a)) = a

\* C1: in file-tree mode, when an argument is neither a file nor a directory,
\* an error is logged, the process does not crash, and every other valid
\* argument of the invocation is still processed, before or after the bad one.
C1_OtherArgumentsStillConverted ==
    (pc = "exited" /\ exc = "AppError") =>
        /\ Logged(log, run_no, "error", source)
        /\ \A k \in DOMAIN sources :
              (is_file(sources[k]) /\ EndsInDotJson(Name(sources[k]))) =>
                  \E i \in DOMAIN io : /\ io[i].run = run_no
                                       /\ io[i].arg = k
                                       /\ io[i].op = "open_rb"
                                       /\ io[i].path = sources[k]

\* C2: a run that met an unrecovered error (malformed JSON in either mode, or
\* an argument that is neither file nor directory) ends with a non-zero
\* status; a run with only written and skipped outcomes ends with status 0.
C2_ErrorMeansFailureStatus ==
    pc = "exited" => (status # 0 <=> exc # "None")

\* C3: without force, no step of the converter changes a file that exists
\* when the destination is opened, also when another process created it after
\* the conversion started; the conversion then logs a warning, returns
\* normally and the loop goes on; no destination is written twice.
C3_Step ==
    ~force =>
        /\ \A p \in DOMAIN fs : fs'[p] # fs[p] => Handle(p, "xt") \in open
        /\ (pc = "write_yaml_file" /\ pc' # pc /\ exists(destination)) =>
              /\ fs' = fs
              /\ open' = open
              /\ exc' = "None"
              /\ pc' = "loop"
              /\ stack' = stack
              /\ log'[Len(log')] = Msg("warning", "already exists, skipping", destination)
        /\ (pc \in {"write_yaml_file", "yaml_dump"} /\ pc' = "loop") =>
              destination \in DOMAIN fs'
        /\ \A p \in DOMAIN fs' : Cardinality(DumpsOf(io', p)) <= 1

C3_NoForceNeverOverwrites == [][C3_Step]_vars

\* Reached: in one invocation a destination made by another process during
\* the conversion was skipped, and the second invocation skipped a.yaml,
\* which the first had written once.
C3_Witness ==
    /\ ~force
    /\ run_no = 2
    /\ pc = "exited"
    /\ exc = "None"
    /\ Cardinality(DumpsOf(io, <<A_YAML>>)) = 1
    /\ Accesses(io, 2, "exists", <<A_YAML>>) # {}
    /\ Logged(log, 2, "warning", <<A_YAML>>)
    /\ fs[<<A_YAML>>] = File(Yaml("V1"))
    /\ <<D_DIR, A_YAML>> \in DOMAIN fs
    /\ fs[<<D_DIR, A_YAML>>] = File(Yaml("FOREIGN"))
    /\ Logged(log, 1, "warning", <<D_DIR, A_YAML>>)

\* C4: with force, opening the destination always creates or truncates it and
\* never skips; after the dump the destination holds the YAML document of the
\* source's value tree, whatever it held before.
C4_Step ==
    force =>
        /\ (pc = "write_yaml_file" /\ pc' # pc) =>
              /\ pc' = "yaml_dump"
              /\ fs'[destination] = File(Empty)
              /\ Handle(destination, "wt") \in open'
        /\ (pc = "yaml_dump" /\ pc' # pc) =>
              /\ fs'[destination] = File(Yaml(fs[source].content.tree))
              /\ pc' = "loop"
        /\ \A i \in DOMAIN log' : log'[i].msg # "already exists, skipping"
        /\ \A i \in DOMAIN io' : io'[i].op # "exists"

C4_ForceAlwaysRewrites == [][C4_Step]_vars

\* Reached: with force, a.yaml held already what a.json converts to, and both
\* invocations rewrote it.
C4_Witness ==
    /\ force
    /\ run_no = 2
    /\ pc = "exited"
    /\ Accesses(io, 1, "wt", <<A_YAML>>) # {}
    /\ Accesses(io, 2, "wt", <<A_YAML>>) # {}
    /\ Cardinality(DumpsOf(io, <<A_YAML>>)) >= 2
    /\ fs[<<A_YAML>>] = File(Yaml("V1"))
    /\ <<D_DIR, A_YAML>> \in DOMAIN fs
    /\ fs[<<D_DIR, A_YAML>>] = File(Yaml("V2"))

\* C5: for a file whose extension is not exactly '.json', json_to_yaml opens
\* and reads nothing, changes no file, logs a warning, raises nothing and the
\* loop goes on with the next source; the content of the file plays no part.
C5_Step ==
    (pc = "json_to_yaml" /\ pc' # pc /\ ~EndsInDotJson(Name(source))) =>
        /\ fs' = fs
        /\ open' = open
        /\ io' = io
        /\ exc' = "None"
        /\ pc' = "loop"
        /\ stack' = stack
        /\ log' = Append(log, Msg("warning", "does not have a json extension, skipping", source))

C5_WrongExtensionIsNoOp == [][C5_Step]_vars

\* Reached: b.txt (not JSON inside) was skipped with a warning, nothing of it
\* was opened, no b.yaml exists, and the next argument, a.json, was then
\* converted in the same invocation.
C5_Witness ==
    /\ Len(sources) = 2
    /\ sources[1] = <<B_TXT>>
    /\ sources[2] = <<A_JSON>>
    /\ run_no = 1
    /\ pc = "exited"
    /\ exc = "None"
    /\ status = 0
    /\ Logged(log, 1, "warning", <<B_TXT>>)
    /\ <<B_YAML>> \notin DOMAIN fs
    /\ \A i \in DOMAIN io : io[i].arg = 2
    /\ DumpsOf(io, <<A_YAML>>) # {}
    /\ fs[<<A_YAML>>] = File(Yaml("V1"))

\* C6: for a directory argument only its immediate entries are accessed: no
\* file inside a sub-directory is read and no file is created inside one,
\* whatever the sub-directory is called.
C6_NoSubdirectoryEntered ==
    \A i \in DOMAIN io :
        is_dir(sources[io[i].arg]) => Parent(io[i].path) = sources[io[i].arg]

\* C7: the mode depends only on the number of arguments.  With none, the run
\* reads standard input, writes its YAML document to standard output and
\* touches no file, and force adds only a warning; with one or more, standard
\* input is never read and standard output never written.
WarningsOf(lg, r) ==
    Cardinality({i \in DOMAIN lg : lg[i].run = r /\ lg[i].level \in {"warning", "error"}})

C7_Step ==
    /\ Len(sources) = 0 =>
          /\ fs' = fs
          /\ io' = <<>>
          /\ open' = {}
          /\ pc' \in {"raised", "exited"} => stdin_read'
          /\ (pc' = "exited" /\ exc' = "None") =>
                /\ stdout' = <<Yaml(stdin.tree)>>
                /\ status' = 0
                /\ WarningsOf(log', run_no') = IF force THEN 1 ELSE 0
    /\ Len(sources) > 0 =>
          /\ ~stdin_read'
          /\ stdout' = <<>>

C7_ModeByArgumentCount == [][C7_Step]_vars

\* Reached: stream mode with force has written the document to standard
\* output, with the one warning.
C7_Witness ==
    /\ sources = <<>>
    /\ force
    /\ pc = "exited"
    /\ stdin_read
    /\ stdout = <<Yaml("V0")>>
    /\ WarningsOf(log, run_no) = 1

\* C9: in file-tree mode the accesses follow the argument order, a directory
\* being expanded where it stands; every access caused by an argument lies
\* with that argument; at most one file is open at any moment, and none
\* between two sources.
C9_SequentialInArgumentOrder ==
    /\ Cardinality(open) <= 1
    /\ pc \in {"loop", "run_source", "json_to_yaml", "exited"} => open = {}
    /\ \A i \in DOMAIN io :
          /\ io[i].arg \in DOMAIN sources
          /\ IF is_dir(sources[io[i].arg])
             THEN IsPrefix(sources[io[i].arg], io[i].path)
             ELSE Parent(io[i].path) = Parent(sources[io[i].arg])
          /\ (i < Len(io) /\ io[i + 1].run = io[i].run) => io[i].arg <= io[i + 1].arg

\* Reached: a directory argument with two conversions, followed by a file
\* argument, all done.
C9_Witness ==
    /\ Len(sources) = 2
    /\ sources[1] = <<D_DIR>>
    /\ sources[2] = <<A_JSON>>
    /\ pc = "exited"
    /\ exc = "None"
    /\ run_no = 1
    /\ \E i, j, k \in DOMAIN io :
          /\ i < j /\ j < k
          /\ io[i].op = "dump" /\ io[i].arg = 1
          /\ io[j].op = "dump" /\ io[j].arg = 1
          /\ io[k].op = "open_rb" /\ io[k].arg = 2

\* C10: in file-tree mode a '.json' source that is not valid JSON raises from
\* the load with the filesystem untouched (its destination neither created
\* nor truncated, with or without force); from then on the invocation reads,
\* writes and logs nothing more and ends with status 1.
C10_Step ==
    Len(sources) > 0 =>
        /\ (pc = "json_load" /\ pc' # pc /\ fs[source].content.syntax # "json") =>
              /\ exc' = "JSONDecodeError"
              /\ pc' = "raised"
              /\ fs' = fs
              /\ open' = {}
        /\ (exc = "JSONDecodeError" /\ run_no' = run_no) =>
              /\ fs' = fs
              /\ io' = io
              /\ log' = log
              /\ open' = {}
              /\ exc' = exc
              /\ pc' = "exited"
              /\ status' = 1
              /\ io[Len(io)] = Ev("load", source)

C10_MalformedSourceEndsRun == [][C10_Step]_vars

\* Reached: with force, a.json was converted, then d/a.json failed to parse
\* while its destination existed; the destination is as it was, the rest of
\* the directory and the later argument are untouched.
C10_Witness ==
    /\ force
    /\ Len(sources) = 2
    /\ sources[1] = <<A_JSON>>
    /\ sources[2] = <<D_DIR>>
    /\ run_no = 1
    /\ pc = "exited"
    /\ status = 1
    /\ exc = "JSONDecodeError"
    /\ source = <<D_DIR, A_JSON>>
    /\ fs[<<A_YAML>>] = File(Yaml("V1"))
    /\ DumpsOf(io, <<A_YAML>>) # {}
    /\ <<D_DIR, A_YAML>> \in DOMAIN fs
    /\ fs[<<D_DIR, A_YAML>>] = File(Yaml("FOREIGN"))
    /\ Accesses(io, 1, "open_rb", <<D_DIR, S_JSON, E_JSON>>) = {}

====
